---- MODULE Spec2Model ----
(***************************************************************************)
(* A model of the ggb-sdg-data scripts: address_geocoding.py,              *)
(* normalize_sdg_data.py, convert_sdg_data.py and the CSV helpers of       *)
(* file_utils.py.  Each script is a run of its __main__ block over an in-  *)
(* memory list of rows.                                                    *)
(*                                                                         *)
(* A Python str is a sequence of one-character strings, a Python value is  *)
(* a one-field record that tells its type, and a Python dict (which keeps  *)
(* insertion order) is a sequence of <<key, value>> pairs with distinct    *)
(* keys.                                                                   *)
(***************************************************************************)
EXTENDS Integers, Sequences, FiniteSets, TLC

VARIABLES
    script,         \* which script runs: "geocode", "normalize" or "convert"
    pc,             \* position in the script's __main__ block
    input_rows,     \* the rows as read_csv / csv.DictReader returned them
    csv_data,       \* the list of rows the script works on
    index,          \* 1-based position of the loop over the rows
    failed_rows,    \* geocode_addresses: rows that could not be geocoded
    calls,          \* log of every request made to the geocoding provider
    mode,           \* normalize: "all" or "minimal"
    cover_csv_data, \* normalize: whether a cover file is given, and its rows
    output_file,    \* the output file (CSV or JSON) on disk
    failed_file     \* the failure report on disk

vars == <<script, pc, input_rows, csv_data, index, failed_rows, calls, mode,
          cover_csv_data, output_file, failed_file>>

----------------------------------------------------------------------------
(* Bounds of the model *)

MaxGeoRows == 2
MaxNormRows == 2
MaxCoverRows == 2
MaxConvRows == 3

----------------------------------------------------------------------------
(* Python values *)

Str(s) == [str |-> s]
Num(n) == [num |-> n]
IntList(l) == [list |-> l]
None == [none |-> TRUE]

\* Python truthiness of a value: "if row['latitude']", "if location", ...
Truthy(v) ==
    IF DOMAIN v = {"str"} THEN v.str # <<>>
    ELSE IF DOMAIN v = {"num"} THEN v.num # 0
    ELSE IF DOMAIN v = {"list"} THEN v.list # <<>>
    ELSE FALSE

(* Python dicts *)

Keys(d) == [j \in 1..Len(d) |-> d[j][1]]
KeySet(d) == {d[j][1] : j \in 1..Len(d)}
Has(d, k) == k \in KeySet(d)
Get(d, k) == d[CHOOSE j \in 1..Len(d) : d[j][1] = k][2]
\* d[k] = v: an existing key keeps its place, a new key goes last
Set(d, k, v) ==
    IF Has(d, k)
    THEN [j \in 1..Len(d) |-> IF d[j][1] = k THEN <<k, v>> ELSE d[j]]
    ELSE Append(d, <<k, v>>)
\* d.get(k, default)
GetOr(d, k, default) == IF Has(d, k) THEN Get(d, k) ELSE default
\* d.pop(k) for a key that is there: the dict without it
Without(d, k) == SelectSeq(d, LAMBDA p : p[1] # k)

----------------------------------------------------------------------------
(* The rows a csv.DictReader yields for a header: every row has the        *)
(* header's keys, in the header's order, with str values.                  *)

s_empty == <<>>
s_acme == <<"A", "c">>
s_ACME_sp == <<"A", "C", " ">>
s_other == <<"z">>
s_street == <<"M", "a", "i", "n">>
s_lat == <<"5", ",", "2">>
s_lon == <<"1", "3">>
s_domain == <<"a", ".", "o">>
s_https == <<"h", "t", "t", "p", "s", ":", "/", "/">>
s_id7 == <<"7">>
s_id8 == <<"8">>
s_sdgs_137 == <<"1", ",", " ", "3", ",", "7">>
s_sdgs_5 == <<"5">>
s_sdgs_1x == <<"1", ",", "x">>

\* the cell values the model draws for a column, by the column's name
CellValues(key) ==
    CASE key = "name" -> {Str(s_empty), Str(s_acme)}
      [] key = "Name" -> {Str(s_ACME_sp), Str(s_other)}
      [] key \in {"street_address", "address", "Address"} -> {Str(s_empty), Str(s_street)}
      [] key \in {"latitude", "Latitude"} -> {Str(s_empty), Str(s_lat)}
      [] key \in {"longitude", "Longitude"} -> {Str(s_empty), Str(s_lon)}
      [] key \in {"id", "ID", "Id"} -> {Str(s_id7), Str(s_id8)}
      [] key \in {"website", "Website", "domain"} -> {Str(s_empty), Str(s_domain)}
      [] key = "cover_image_id" -> {Str(s_empty), Str(s_id7), Str(s_id8)}
      [] key = "SDGs" -> {Str(s_empty), Str(s_sdgs_137), Str(s_sdgs_5), Str(s_sdgs_1x)}
      [] OTHER -> {Str(s_empty)}

AllCellValues ==
    UNION {CellValues(k) : k \in {"name", "Name", "street_address", "latitude", "longitude",
                                  "id", "website", "cover_image_id", "SDGs", "other"}}

\* csv.DictReader: one dict per line, keyed by the header
DictReaderRows(header) ==
    {[j \in 1..Len(header) |-> <<header[j], f[j]>>] :
        f \in {g \in [1..Len(header) -> AllCellValues] :
                 \A j \in 1..Len(header) : g[j] \in CellValues(header[j])}}

\* read_csv: list(reader), at most max rows in the model
ReadCsv(header, max) ==
    UNION {[1..n -> DictReaderRows(header)] : n \in 0..max}

NoFile == [exists |-> FALSE, header |-> <<>>, rows |-> <<>>]

\* no cover file path on the command line
NoCover == [given |-> FALSE, rows |-> <<>>]

----------------------------------------------------------------------------
(* file_utils.write_csv *)

\* csv.DictWriter._dict_to_list: the fields of a row that the header lacks
WrongFields(row, fieldnames) ==
    {k \in KeySet(row) : \A j \in 1..Len(fieldnames) : fieldnames[j] # k}

\* a value as the csv writer writes it: None is written as the empty string
CsvCell(v) == IF v = None THEN Str(<<>>) ELSE v

\* csv.DictWriter._dict_to_list: the row's cells in header order, a missing
\* field written as restval ''
DictToList(row, fieldnames) ==
    [j \in 1..Len(fieldnames) |->
        IF Has(row, fieldnames[j]) THEN CsvCell(Get(row, fieldnames[j])) ELSE Str(<<>>)]

\* the first row writerows raises ValueError on (0: none)
FirstWrongRow(data, fieldnames) ==
    IF \E i \in 1..Len(data) : WrongFields(data[i], fieldnames) # {}
    THEN CHOOSE i \in 1..Len(data) :
            /\ WrongFields(data[i], fieldnames) # {}
            /\ \A h \in 1..(i - 1) : WrongFields(data[h], fieldnames) = {}
    ELSE 0

\* the file after open(mode='w'), writeheader() and writerows() of n rows
CsvFile(data, fieldnames, n) ==
    [exists |-> TRUE,
     header |-> fieldnames,
     rows |-> [i \in 1..n |-> DictToList(data[i], fieldnames)]]

\* where __main__ goes on after write_csv returned
AfterWriteCsv == IF script = "geocode" THEN "write_failed" ELSE "done"

\* "if csv_data:" is false: nothing is opened
WriteCsvNoData ==
    /\ pc = "write_csv"
    /\ csv_data = <<>>
    /\ pc' = AfterWriteCsv
    /\ UNCHANGED <<script, input_rows, csv_data, index, failed_rows, calls, mode,
                   cover_csv_data, output_file, failed_file>>

\* the header and every row are written
WriteCsvAll ==
    /\ pc = "write_csv"
    /\ csv_data # <<>>
    /\ LET fieldnames == Keys(csv_data[1]) IN
        /\ FirstWrongRow(csv_data, fieldnames) = 0
        /\ output_file' = CsvFile(csv_data, fieldnames, Len(csv_data))
    /\ pc' = AfterWriteCsv
    /\ UNCHANGED <<script, input_rows, csv_data, index, failed_rows, calls, mode,
                   cover_csv_data, failed_file>>

\* writerows raises ValueError on a row with a field the header lacks: the
\* rows before it are in the file, "except Exception" ends the run
WriteCsvError ==
    /\ pc = "write_csv"
    /\ csv_data # <<>>
    /\ LET fieldnames == Keys(csv_data[1])
           bad == FirstWrongRow(csv_data, fieldnames) IN
        /\ bad # 0
        /\ output_file' = CsvFile(csv_data, fieldnames, bad - 1)
    /\ pc' = "exit"
    /\ UNCHANGED <<script, input_rows, csv_data, index, failed_rows, calls, mode,
                   cover_csv_data, failed_file>>

----------------------------------------------------------------------------
(* address_geocoding.py *)

GeocodeTimeout == 5

s_unknown_name == <<"Unknown name">>

\* what the provider may return for a request: a location's coordinates
Locations == {[latitude |-> 52, longitude |-> 13], [latitude |-> 48, longitude |-> 0]}

\* the headers of the input files the model draws
GeoHeaders ==
    {<<"name", "street_address">>,
     <<"street_address", "latitude", "longitude">>,
     <<"name", "street_address", "latitude", "longitude">>,
     <<"name", "latitude">>}

\* line 38: neither coordinate is there yet
\* mutant: the "not" before row[k] dropped
Lacks_NotDropped(row, k) == IF Has(row, k) THEN Truthy(Get(row, k)) ELSE TRUE

\* "k not in row or not row[k]"
Lacks(row, k) == IF Has(row, k) THEN ~Truthy(Get(row, k)) ELSE TRUE

LacksCoordinates(row) == Lacks(row, "latitude") /\ Lacks(row, "longitude")

\* mutant: only the presence of the column is looked at
HasStreetAddress_KeyOnly(row) == Has(row, "street_address")

\* line 39
HasStreetAddress(row) ==
    IF Has(row, "street_address") THEN Truthy(Get(row, "street_address")) ELSE FALSE

IsGeocoded(row) == LacksCoordinates(row) /\ HasStreetAddress(row)

\* mutant: the two coordinates swapped
WithCoordinates_Swapped(row, lat, lon) == Set(Set(row, "latitude", lon), "longitude", lat)

\* row['latitude'] = lat; row['longitude'] = lon
WithCoordinates(row, lat, lon) == Set(Set(row, "latitude", lat), "longitude", lon)

\* mutant: enumerate without start=1
FailedRow_ZeroBased(i, reason, row) ==
    [row_index |-> i - 1,
     reason |-> reason,
     name |-> GetOr(row, "name", Str(s_unknown_name)),
     street_address |-> Get(row, "street_address")]

\* the entry appended to failed_rows
FailedRow(i, reason, row) ==
    [row_index |-> i,
     reason |-> reason,
     name |-> GetOr(row, "name", Str(s_unknown_name)),
     street_address |-> Get(row, "street_address")]

\* geolocator.geocode(row['street_address'], timeout=5), with what came back
Request(i, row, result) ==
    [index |-> i, query |-> Get(row, "street_address"),
     timeout |-> GeocodeTimeout, result |-> result]

InitGeocode ==
    /\ script = "geocode"
    /\ pc = "geocode"
    /\ \E header \in GeoHeaders : input_rows \in ReadCsv(header, MaxGeoRows)
    /\ csv_data = input_rows
    /\ index = 1
    /\ failed_rows = <<>>
    /\ calls = <<>>
    /\ mode = "all"
    /\ cover_csv_data = NoCover
    /\ output_file = NoFile
    /\ failed_file = NoFile

\* a row that has coordinates, or no street_address: nothing happens
GeocodeSkip ==
    /\ pc = "geocode"
    /\ index <= Len(csv_data)
    /\ ~IsGeocoded(csv_data[index])
    /\ index' = index + 1
    /\ UNCHANGED <<script, pc, input_rows, csv_data, failed_rows, calls, mode,
                   cover_csv_data, output_file, failed_file>>

\* the provider returns a location
GeocodeLocated ==
    /\ pc = "geocode"
    /\ index <= Len(csv_data)
    /\ IsGeocoded(csv_data[index])
    /\ \E location \in Locations :
        /\ calls' = Append(calls, Request(index, csv_data[index],
                                          [location |-> location]))
        /\ csv_data' = [csv_data EXCEPT ![index] =
                            WithCoordinates(@, Num(location.latitude),
                                            Num(location.longitude))]
    /\ index' = index + 1
    /\ UNCHANGED <<script, pc, input_rows, failed_rows, mode, cover_csv_data,
                   output_file, failed_file>>

\* the provider returns None
GeocodeUnknown ==
    /\ pc = "geocode"
    /\ index <= Len(csv_data)
    /\ IsGeocoded(csv_data[index])
    /\ calls' = Append(calls, Request(index, csv_data[index], None))
    /\ failed_rows' = Append(failed_rows,
                             FailedRow(index, "Unknown address(format?)", csv_data[index]))
    /\ csv_data' = [csv_data EXCEPT ![index] = WithCoordinates(@, None, None)]
    /\ index' = index + 1
    /\ UNCHANGED <<script, pc, input_rows, mode, cover_csv_data, output_file,
                   failed_file>>

\* the provider raises GeocoderTimedOut
GeocodeTimedOut ==
    /\ pc = "geocode"
    /\ index <= Len(csv_data)
    /\ IsGeocoded(csv_data[index])
    /\ calls' = Append(calls, Request(index, csv_data[index], [raised |-> "GeocoderTimedOut"]))
    /\ failed_rows' = Append(failed_rows, FailedRow(index, "Timeout", csv_data[index]))
    /\ csv_data' = [csv_data EXCEPT ![index] = WithCoordinates(@, None, None)]
    /\ index' = index + 1
    /\ UNCHANGED <<script, pc, input_rows, mode, cover_csv_data, output_file,
                   failed_file>>

\* the loop is over: return csv_data, failed_rows
GeocodeReturn ==
    /\ pc = "geocode"
    /\ index > Len(csv_data)
    /\ pc' = "write_csv"
    /\ UNCHANGED <<script, input_rows, csv_data, index, failed_rows, calls, mode,
                   cover_csv_data, output_file, failed_file>>

\* one line of the report per failed row: [Row X] reason: name - street_address
ReportLine(row) == <<row.row_index, row.reason, row.name, row.street_address>>

\* "if failed_rows:" write_failed_rows_to_textfile
WriteFailedRows ==
    /\ pc = "write_failed"
    /\ failed_rows # <<>>
    /\ failed_file' = [exists |-> TRUE, header |-> <<>>,
                       rows |-> [i \in 1..Len(failed_rows) |-> ReportLine(failed_rows[i])]]
    /\ pc' = "done"
    /\ UNCHANGED <<script, input_rows, csv_data, index, failed_rows, calls, mode,
                   cover_csv_data, output_file>>

NoFailedRows ==
    /\ pc = "write_failed"
    /\ failed_rows = <<>>
    /\ pc' = "done"
    /\ UNCHANGED <<script, input_rows, csv_data, index, failed_rows, calls, mode,
                   cover_csv_data, output_file, failed_file>>

NextGeocode ==
    \/ GeocodeSkip
    \/ GeocodeLocated
    \/ GeocodeUnknown
    \/ GeocodeTimedOut
    \/ GeocodeReturn
    \/ WriteCsvNoData
    \/ WriteCsvAll
    \/ WriteCsvError
    \/ WriteFailedRows
    \/ NoFailedRows

SpecGeocode == InitGeocode /\ [][NextGeocode]_vars

----------------------------------------------------------------------------
(* normalize_sdg_data.py *)

\* str.lower() on the column names of the model
LowerKey(key) ==
    CASE key \in {"ID", "Id"} -> "id"
      [] key = "Name" -> "name"
      [] key = "Website" -> "website"
      [] key = "Address" -> "address"
      [] key = "Latitude" -> "latitude"
      [] key = "Longitude" -> "longitude"
      [] key = "SDGs" -> "sdgs"
      [] key = "Other" -> "other"
      [] OTHER -> key

\* {key.lower(): value for key, value in row.items()}: the items in order,
\* a later item overwriting an earlier one with the same lowered key
RECURSIVE LowerItems(_, _)
LowerItems(row, n) ==
    IF n = 0 THEN <<>>
    ELSE Set(LowerItems(row, n - 1), LowerKey(row[n][1]), row[n][2])

lowercase_column_names(data) ==
    [i \in 1..Len(data) |-> LowerItems(data[i], Len(data[i]))]

\* mutant: the id column is written whether or not there is one
add_id_column_Overwrite(data) ==
    [i \in 1..Len(data) |-> Set(data[i], "id", Num(i))]

add_id_column(data) ==
    LET fieldnames == IF data # <<>> THEN KeySet(data[1]) ELSE {} IN
    IF "id" \notin fieldnames
    THEN [i \in 1..Len(data) |-> Set(data[i], "id", Num(i))]
    ELSE data

\* str.replace(',', '.')
ReplaceCommas(v) == Str([j \in 1..Len(v.str) |-> IF v.str[j] = "," THEN "." ELSE v.str[j]])

NormalizeField(row, k) == IF Has(row, k) THEN Set(row, k, ReplaceCommas(Get(row, k))) ELSE row

normalize_lat_lon(data) ==
    [i \in 1..Len(data) |-> NormalizeField(NormalizeField(data[i], "latitude"), "longitude")]

\* str.startswith
StartsWith(s, prefix) ==
    IF Len(s) >= Len(prefix) THEN SubSeq(s, 1, Len(prefix)) = prefix ELSE FALSE

\* the homepage made of a domain
Homepage(domain) ==
    IF Truthy(domain) /\ ~StartsWith(domain.str, s_https)
    THEN Str(s_https \o domain.str)
    ELSE domain

\* row['domain'] = row.pop('website'), then row['homepage']
RenameWebsite(row) ==
    IF Has(row, "website")
    THEN LET domain == Get(row, "website")
             renamed == Set(Without(row, "website"), "domain", domain)
         IN  Set(renamed, "homepage", Homepage(domain))
    ELSE row

rename_homepage_and_create_website(data) ==
    [i \in 1..Len(data) |-> RenameWebsite(data[i])]

\* row['street_address'] = row.pop('address')
RenameAddress(row) ==
    IF Has(row, "address")
    THEN Set(Without(row, "address"), "street_address", Get(row, "address"))
    ELSE row

rename_address_to_street_address(data) ==
    [i \in 1..Len(data) |-> RenameAddress(data[i])]

\* str.lower() on the characters of the model
LowerChar(c) ==
    CASE c = "A" -> "a"
      [] c = "C" -> "c"
      [] c = "M" -> "m"
      [] OTHER -> c

Lower(s) == [j \in 1..Len(s) |-> LowerChar(s[j])]

\* str.strip(): leading and trailing whitespace removed
RECURSIVE Strip(_)
Strip(s) ==
    IF s = <<>> THEN s
    ELSE IF Head(s) = " " THEN Strip(Tail(s))
    ELSE IF s[Len(s)] = " " THEN Strip(SubSeq(s, 1, Len(s) - 1))
    ELSE s

\* value.strip().lower()
LookupKey(v) == Lower(Strip(v.str))

\* mutant: a key already registered keeps its first id
Register_FirstWins(lookup, row, k) ==
    IF Truthy(GetOr(row, k, None)) /\ ~Has(lookup, LookupKey(Get(row, k)))
    THEN Set(lookup, LookupKey(Get(row, k)), GetOr(row, "cover_image_id", None))
    ELSE lookup

\* if row.get(k): cover_lookup[row[k].strip().lower()] = row.get('cover_image_id')
Register(lookup, row, k) ==
    IF Truthy(GetOr(row, k, None))
    THEN Set(lookup, LookupKey(Get(row, k)), GetOr(row, "cover_image_id", None))
    ELSE lookup

\* the lookup table after the first n rows of the cover file
RECURSIVE CoverLookup(_, _)
CoverLookup(cover, n) ==
    IF n = 0 THEN <<>>
    ELSE Register(Register(CoverLookup(cover, n - 1), cover[n], "name"), cover[n], "domain")

\* 'k' in row and row[k].strip().lower() in cover_lookup
Matches(row, k, lookup) ==
    IF Has(row, k) THEN Has(lookup, LookupKey(Get(row, k))) ELSE FALSE

\* the cover_image_id found for a row, None when there is none
FoundCoverId(row, lookup) ==
    IF Matches(row, "name", lookup) THEN Get(lookup, LookupKey(Get(row, "name")))
    ELSE IF Matches(row, "domain", lookup) THEN Get(lookup, LookupKey(Get(row, "domain")))
    ELSE None

\* if cover_image_id: row['cover_image_id'] = cover_image_id
WithCoverId(row, lookup) ==
    IF Truthy(FoundCoverId(row, lookup))
    THEN Set(row, "cover_image_id", FoundCoverId(row, lookup))
    ELSE row

add_cover_image_id(data, cover) ==
    LET cover_lookup == CoverLookup(cover, Len(cover)) IN
    [i \in 1..Len(data) |-> WithCoverId(data[i], cover_lookup)]

\* the headers of the input files the model draws
NormalizeHeaders ==
    {<<"Name", "Website">>,
     <<"ID", "Name">>,
     <<"Id", "id">>,
     <<"id", "Address", "Latitude", "Longitude">>}

\* the rows of the cover files the model draws: name, domain, cover_image_id
CoverRows ==
    {r \in DictReaderRows(<<"name", "domain", "cover_image_id">>) :
        \/ r[1][2] = Str(s_empty) /\ r[2][2] # Str(s_empty)
        \/ r[1][2] # Str(s_empty) /\ r[2][2] = Str(s_empty)
        \/ r[1][2] # Str(s_empty) /\ r[2][2] # Str(s_empty) /\ r[3][2] = Str(s_id8)}
    \cup DictReaderRows(<<"name">>)

CoverFiles == UNION {[1..n -> CoverRows] : n \in 0..MaxCoverRows}

InitNormalizeWith(headers, covers) ==
    /\ script = "normalize"
    /\ pc = "lowercase"
    /\ \E header \in headers : input_rows \in ReadCsv(header, MaxNormRows)
    /\ csv_data = input_rows
    /\ index = 1
    /\ failed_rows = <<>>
    /\ calls = <<>>
    /\ mode \in {"all", "minimal"}
    /\ cover_csv_data \in covers
    /\ output_file = NoFile
    /\ failed_file = NoFile

\* a run without a cover file
InitNormalize == InitNormalizeWith(NormalizeHeaders, {NoCover})

\* a run in mode "all" with a cover file
InitCover ==
    /\ InitNormalizeWith({<<"Name", "Website">>},
                         {[given |-> TRUE, rows |-> c] : c \in CoverFiles})
    /\ mode = "all"

LowercaseColumnNames ==
    /\ pc = "lowercase"
    /\ csv_data' = lowercase_column_names(csv_data)
    /\ pc' = "add_id"
    /\ UNCHANGED <<script, input_rows, index, failed_rows, calls, mode,
                   cover_csv_data, output_file, failed_file>>

AddIdColumn ==
    /\ pc = "add_id"
    /\ csv_data' = add_id_column(csv_data)
    /\ pc' = "normalize_lat_lon"
    /\ UNCHANGED <<script, input_rows, index, failed_rows, calls, mode,
                   cover_csv_data, output_file, failed_file>>

NormalizeLatLon ==
    /\ pc = "normalize_lat_lon"
    /\ csv_data' = normalize_lat_lon(csv_data)
    /\ pc' = IF mode = "all" THEN "rename_homepage" ELSE "write_csv"
    /\ UNCHANGED <<script, input_rows, index, failed_rows, calls, mode,
                   cover_csv_data, output_file, failed_file>>

RenameHomepageAndCreateWebsite ==
    /\ pc = "rename_homepage"
    /\ csv_data' = rename_homepage_and_create_website(csv_data)
    /\ pc' = "rename_address"
    /\ UNCHANGED <<script, input_rows, index, failed_rows, calls, mode,
                   cover_csv_data, output_file, failed_file>>

RenameAddressToStreetAddress ==
    /\ pc = "rename_address"
    /\ csv_data' = rename_address_to_street_address(csv_data)
    /\ pc' = IF cover_csv_data.given THEN "add_cover" ELSE "write_csv"
    /\ UNCHANGED <<script, input_rows, index, failed_rows, calls, mode,
                   cover_csv_data, output_file, failed_file>>

\* cover_csv_data = read_csv(...); csv_data = add_cover_image_id(...)
AddCoverImageId ==
    /\ pc = "add_cover"
    /\ csv_data' = add_cover_image_id(csv_data, cover_csv_data.rows)
    /\ pc' = "write_csv"
    /\ UNCHANGED <<script, input_rows, index, failed_rows, calls, mode,
                   cover_csv_data, output_file, failed_file>>

NextNormalize ==
    \/ LowercaseColumnNames
    \/ AddIdColumn
    \/ NormalizeLatLon
    \/ RenameHomepageAndCreateWebsite
    \/ RenameAddressToStreetAddress
    \/ WriteCsvNoData
    \/ WriteCsvAll

SpecNormalize == InitNormalize /\ [][NextNormalize]_vars

NextCover ==
    \/ LowercaseColumnNames
    \/ AddIdColumn
    \/ NormalizeLatLon
    \/ RenameHomepageAndCreateWebsite
    \/ RenameAddressToStreetAddress
    \/ AddCoverImageId
    \/ WriteCsvNoData
    \/ WriteCsvAll
    \/ WriteCsvError

SpecCover == InitCover /\ [][NextCover]_vars

----------------------------------------------------------------------------
(* convert_sdg_data.py *)

Digits == {"0", "1", "2", "3", "4", "5", "6", "7", "8", "9"}

DigitValue(c) ==
    CASE c = "1" -> 1 [] c = "2" -> 2 [] c = "3" -> 3 [] c = "4" -> 4 [] c = "5" -> 5
      [] c = "6" -> 6 [] c = "7" -> 7 [] c = "8" -> 8 [] c = "9" -> 9 [] OTHER -> 0

\* str.split(','): the pieces between the commas, empty pieces kept
RECURSIVE Split(_)
Split(s) ==
    IF \E j \in 1..Len(s) : s[j] = ","
    THEN LET first == CHOOSE j \in 1..Len(s) :
                        s[j] = "," /\ \A h \in 1..(j - 1) : s[h] # ","
         IN  <<SubSeq(s, 1, first - 1)>> \o Split(SubSeq(s, first + 1, Len(s)))
    ELSE <<s>>

\* whether int(token) returns: an optional sign and at least one digit
IsIntLiteral(token) ==
    LET body == IF token # <<>> /\ Head(token) \in {"+", "-"} THEN Tail(token) ELSE token
    IN  body # <<>> /\ \A j \in 1..Len(body) : body[j] \in Digits

RECURSIVE DecimalValue(_)
DecimalValue(digits) ==
    IF digits = <<>> THEN 0
    ELSE 10 * DecimalValue(SubSeq(digits, 1, Len(digits) - 1)) + DigitValue(digits[Len(digits)])

\* int(token) for a token that is a literal
IntOf(token) ==
    IF token # <<>> /\ Head(token) = "-" THEN 0 - DecimalValue(Tail(token))
    ELSE IF token # <<>> /\ Head(token) = "+" THEN DecimalValue(Tail(token))
    ELSE DecimalValue(token)

\* 'SDGs' in row and row['SDGs']
HasSdgs(row) == IF Has(row, "SDGs") THEN Truthy(Get(row, "SDGs")) ELSE FALSE

\* the stripped tokens of the row's SDGs field
SdgTokens(row) ==
    LET pieces == Split(Get(row, "SDGs").str) IN
    [j \in 1..Len(pieces) |-> Strip(pieces[j])]

\* mutant: a token that is no integer is let through
SdgsParse_Lenient(row) == TRUE

\* whether every int(sdg.strip()) of the row returns
SdgsParse(row) ==
    IF HasSdgs(row)
    THEN \A j \in 1..Len(SdgTokens(row)) : IsIntLiteral(SdgTokens(row)[j])
    ELSE TRUE

\* the row as appended to data
ConvertedRow(row) ==
    IF HasSdgs(row)
    THEN Set(row, "SDGs",
             IntList([j \in 1..Len(SdgTokens(row)) |-> IntOf(SdgTokens(row)[j])]))
    ELSE row

\* the headers of the input files the model draws
ConvertHeaders == {<<"Other", "SDGs">>, <<"Other">>}

\* the input file is a raw file, or one whose header the normalize stage
\* has lowercased
InitConvert ==
    /\ script = "convert"
    /\ pc = "convert"
    /\ \E header \in ConvertHeaders :
        \E raw \in ReadCsv(header, MaxConvRows) :
            input_rows \in {raw, lowercase_column_names(raw)}
    /\ csv_data = <<>>
    /\ index = 1
    /\ failed_rows = <<>>
    /\ calls = <<>>
    /\ mode = "all"
    /\ cover_csv_data = NoCover
    /\ output_file = NoFile
    /\ failed_file = NoFile

\* one turn of "for row in reader": the row is converted and appended
ConvertRow ==
    /\ pc = "convert"
    /\ index <= Len(input_rows)
    /\ SdgsParse(input_rows[index])
    /\ csv_data' = Append(csv_data, ConvertedRow(input_rows[index]))
    /\ index' = index + 1
    /\ UNCHANGED <<script, pc, input_rows, failed_rows, calls, mode, cover_csv_data,
                   output_file, failed_file>>

\* int() raises ValueError: "except Exception" ends the run with sys.exit
ConvertRowError ==
    /\ pc = "convert"
    /\ index <= Len(input_rows)
    /\ ~SdgsParse(input_rows[index])
    /\ pc' = "exit"
    /\ UNCHANGED <<script, input_rows, csv_data, index, failed_rows, calls, mode,
                   cover_csv_data, output_file, failed_file>>

\* return json.dumps(data, ...)
ConvertReturn ==
    /\ pc = "convert"
    /\ index > Len(input_rows)
    /\ pc' = "write_json"
    /\ UNCHANGED <<script, input_rows, csv_data, index, failed_rows, calls, mode,
                   cover_csv_data, output_file, failed_file>>

\* the JSON text is written to the output file: an array of the rows of data
WriteJson ==
    /\ pc = "write_json"
    /\ output_file' = [exists |-> TRUE, header |-> <<>>, rows |-> csv_data]
    /\ pc' = "done"
    /\ UNCHANGED <<script, input_rows, csv_data, index, failed_rows, calls, mode,
                   cover_csv_data, failed_file>>

NextConvert ==
    \/ ConvertRow
    \/ ConvertRowError
    \/ ConvertReturn
    \/ WriteJson

SpecConvert == InitConvert /\ [][NextConvert]_vars

----------------------------------------------------------------------------
(* Claims about geocode_addresses.  They are stated over the rows as read  *)
(* (input_rows), the rows as they are now (csv_data), the provider's log   *)
(* (calls) and failed_rows.                                                *)

\* the column k of a row is present and not empty
Filled(row, k) == \E j \in 1..Len(row) : row[j][1] = k /\ row[j][2] # Str(<<>>) /\ row[j][2] # None

\* the requests made for the row at position i
CallsFor(i) == {c \in 1..Len(calls) : calls[c].index = i}

\* the entries of failed_rows for the row at position i
FailuresFor(i) == {f \in 1..Len(failed_rows) : failed_rows[f].row_index = i}

\* the loop of geocode_addresses has gone past the row at position i
Processed(i) == script = "geocode" /\ i < index

\* C1: every record that lacks at least one of latitude and longitude and has
\* a non-empty street_address is sent to the provider exactly once, with
\* timeout 5, also when exactly one of the two coordinates is filled.
C1_SentExactlyOnce ==
    \A i \in 1..Len(input_rows) :
        (/\ Processed(i)
         /\ ~(Filled(input_rows[i], "latitude") /\ Filled(input_rows[i], "longitude"))
         /\ Filled(input_rows[i], "street_address"))
        => /\ Cardinality(CallsFor(i)) = 1
           /\ \A c \in CallsFor(i) : calls[c].timeout = 5

\* C2: a record whose latitude and longitude are both present and non-empty
\* is never passed to the provider, keeps all its fields, and has no entry in
\* failed_rows.
C2_FilledNeverSent ==
    script = "geocode" =>
        \A i \in 1..Len(input_rows) :
            (Filled(input_rows[i], "latitude") /\ Filled(input_rows[i], "longitude"))
            => /\ CallsFor(i) = {}
               /\ csv_data[i] = input_rows[i]
               /\ FailuresFor(i) = {}

C2_Witness ==
    /\ script = "geocode"
    /\ pc = "done"
    /\ calls # <<>>
    /\ \E i \in 1..Len(input_rows) :
        /\ Filled(input_rows[i], "latitude")
        /\ Filled(input_rows[i], "longitude")
        /\ Filled(input_rows[i], "street_address")

\* the value of column k of the row now at position i
Field(i, k) == (CHOOSE p \in {csv_data[i][j] : j \in 1..Len(csv_data[i])} : p[1] = k)[2]

HasField(i, k) == \E j \in 1..Len(csv_data[i]) : csv_data[i][j][1] = k

\* C3: for each record sent to the provider: a returned location becomes the
\* record's latitude and longitude and adds no failure entry; no location
\* gives null coordinates and a failure entry "Unknown address(format?)"; a
\* timeout gives null coordinates and a failure entry "Timeout"; in the two
\* failure cases the loop goes on to the next record and reaches the end.
C3_Outcomes ==
    script = "geocode" =>
        /\ \A c \in 1..Len(calls) :
            LET i == calls[c].index
                result == calls[c].result
            IN  /\ i < index
                /\ HasField(i, "latitude") /\ HasField(i, "longitude")
                /\ IF DOMAIN result = {"location"}
                   THEN /\ Field(i, "latitude") = Num(result.location.latitude)
                        /\ Field(i, "longitude") = Num(result.location.longitude)
                        /\ FailuresFor(i) = {}
                   ELSE /\ Field(i, "latitude") = None
                        /\ Field(i, "longitude") = None
                        /\ \E f \in FailuresFor(i) :
                            failed_rows[f].reason =
                                IF result = None THEN "Unknown address(format?)"
                                ELSE "Timeout"
        /\ pc # "geocode" => index = Len(input_rows) + 1

C3_Witness ==
    /\ script = "geocode"
    /\ pc = "done"
    /\ Len(calls) = 2
    /\ DOMAIN calls[1].result = {"raised"}
    /\ DOMAIN calls[2].result = {"location"}
    /\ calls[2].result.location.latitude # calls[2].result.location.longitude

\* the requests that ended in no match or in a timeout, in the order made
FailedCalls == SelectSeq(calls, LAMBDA c : DOMAIN c.result # {"location"})

\* C4: failed_rows holds exactly one entry per record whose request ended in
\* no match or timeout, and nothing else, in ascending row order; row_index
\* is the record's 1-based position, street_address the record's, and name
\* the record's name field if it has one, else "Unknown name".
C4_FailureList ==
    script = "geocode" =>
        /\ Len(failed_rows) = Len(FailedCalls)
        /\ \A f \in 1..Len(failed_rows) :
            LET i == FailedCalls[f].index
                entry == failed_rows[f]
            IN  /\ entry.row_index = i
                /\ i \in 1..Len(input_rows)
                /\ \E j \in 1..Len(input_rows[i]) :
                    /\ input_rows[i][j][1] = "street_address"
                    /\ entry.street_address = input_rows[i][j][2]
                /\ IF \E j \in 1..Len(input_rows[i]) : input_rows[i][j][1] = "name"
                   THEN \E j \in 1..Len(input_rows[i]) :
                            /\ input_rows[i][j][1] = "name"
                            /\ entry.name = input_rows[i][j][2]
                   ELSE entry.name = Str(<<"Unknown name">>)
        /\ \A f, g \in 1..Len(failed_rows) :
            f < g => failed_rows[f].row_index < failed_rows[g].row_index

C4_Witness ==
    /\ script = "geocode"
    /\ pc = "done"
    /\ Len(failed_rows) = 2
    /\ failed_rows[1].name = Str(<<"Unknown name">>)
    /\ failed_rows[1].reason # failed_rows[2].reason

\* C5: a record whose street_address is missing or empty is left entirely
\* unchanged, is not sent to the provider and produces no failure entry,
\* whatever its coordinate fields contain.
C5_NoAddressUntouched ==
    script = "geocode" =>
        \A i \in 1..Len(input_rows) :
            ~Filled(input_rows[i], "street_address")
            => /\ csv_data[i] = input_rows[i]
               /\ CallsFor(i) = {}
               /\ FailuresFor(i) = {}

C5_Witness ==
    /\ script = "geocode"
    /\ pc = "done"
    /\ calls # <<>>
    /\ \E i \in 1..Len(input_rows) :
        /\ \E j \in 1..Len(input_rows[i]) :
            input_rows[i][j] = <<"street_address", Str(<<>>)>>
        /\ ~Filled(input_rows[i], "latitude")
        /\ ~Filled(input_rows[i], "longitude")

----------------------------------------------------------------------------
(* Claims about the convert stage *)

\* the positions j of a row whose column is named k
Columns(row, k) == {j \in 1..Len(row) : row[j][1] = k}

\* C6: a record's non-empty `sdgs` field, spelled as the normalize stage
\* leaves it (lowercased), is replaced by the sequence of integers between
\* its commas ("1, 3,7" becomes [1, 3, 7]); every other field, and an empty
\* sdgs field, is kept as it is.
C6_LowercasedSdgsConverted ==
    script = "convert" =>
        \A i \in 1..Len(csv_data) :
            /\ Len(csv_data[i]) = Len(input_rows[i])
            /\ \A j \in 1..Len(input_rows[i]) :
                IF input_rows[i][j][1] = "sdgs" /\ input_rows[i][j][2] # Str(<<>>)
                THEN /\ csv_data[i][j][1] = "sdgs"
                     /\ DOMAIN csv_data[i][j][2] = {"list"}
                     /\ input_rows[i][j][2] = Str(<<"1", ",", " ", "3", ",", "7">>)
                            => csv_data[i][j][2] = IntList(<<1, 3, 7>>)
                     /\ input_rows[i][j][2] = Str(<<"5">>)
                            => csv_data[i][j][2] = IntList(<<5>>)
                ELSE csv_data[i][j] = input_rows[i][j]

\* the same statement for the field spelled `SDGs`, as convert_csv_to_json
\* looks it up: this one the code meets
C6_ExactKeyConverted ==
    script = "convert" =>
        \A i \in 1..Len(csv_data) :
            /\ Len(csv_data[i]) = Len(input_rows[i])
            /\ \A j \in 1..Len(input_rows[i]) :
                IF input_rows[i][j][1] = "SDGs" /\ input_rows[i][j][2] # Str(<<>>)
                THEN /\ csv_data[i][j][1] = "SDGs"
                     /\ DOMAIN csv_data[i][j][2] = {"list"}
                     /\ input_rows[i][j][2] = Str(<<"1", ",", " ", "3", ",", "7">>)
                            => csv_data[i][j][2] = IntList(<<1, 3, 7>>)
                     /\ input_rows[i][j][2] = Str(<<"5">>)
                            => csv_data[i][j][2] = IntList(<<5>>)
                ELSE csv_data[i][j] = input_rows[i][j]

\* s[a..b] is one of the pieces of s between its commas
IsPiece(s, a, b) ==
    /\ a <= b + 1
    /\ \A j \in a..b : s[j] # ","
    /\ (a = 1 \/ s[a - 1] = ",")
    /\ (b = Len(s) \/ s[b + 1] = ",")

\* s[a..b] is, but for blanks around it, an optional sign and digits
IsIntegerPiece(s, a, b) ==
    \E c \in a..b : \E d \in c..b :
        /\ \A j \in a..b : (j < c \/ j > d) => s[j] = " "
        /\ \/ \A j \in c..d : s[j] \in {"0", "1", "2", "3", "4", "5", "6", "7", "8", "9"}
           \/ /\ c < d
              /\ s[c] \in {"+", "-"}
              /\ \A j \in (c + 1)..d :
                    s[j] \in {"0", "1", "2", "3", "4", "5", "6", "7", "8", "9"}

\* the record's SDGs field has a token that is no integer
HasBadToken(row) ==
    \E j \in Columns(row, "SDGs") :
        LET s == row[j][2].str IN
        /\ s # <<>>
        /\ \E a \in 1..(Len(s) + 1) : \E b \in 0..Len(s) :
            IsPiece(s, a, b) /\ ~IsIntegerPiece(s, a, b)

----------------------------------------------------------------------------
(* Claims about the normalize stage *)

\* C8: add_id_column, run after lowercase_column_names, leaves a record that
\* has an `id` column as it is (also when the header spelled it ID or Id),
\* and gives the record at position i of a sequence without one the id i,
\* its other fields kept; the number of records stays, so an empty sequence
\* stays empty.
C8_AddIdColumn ==
    [][(script = "normalize" /\ pc = "add_id") =>
        /\ Len(csv_data') = Len(csv_data)
        /\ \A i \in 1..Len(csv_data) :
            /\ IF Columns(csv_data[i], "id") # {}
               THEN csv_data'[i] = csv_data[i]
               ELSE csv_data'[i] = Append(csv_data[i], <<"id", Num(i)>>)
            /\ \A j \in 1..Len(input_rows[i]) :
                input_rows[i][j][1] \in {"ID", "Id", "id"}
                => \E h \in Columns(csv_data'[i], "id") :
                    \E g \in 1..Len(input_rows[i]) :
                        /\ input_rows[i][g][1] \in {"ID", "Id", "id"}
                        /\ csv_data'[i][h][2] = input_rows[i][g][2]]_vars

C8_Witness ==
    /\ script = "normalize"
    /\ pc = "normalize_lat_lon"
    /\ Len(csv_data) = 2
    /\ Columns(input_rows[1], "ID") = {} /\ Columns(input_rows[1], "id") = {}
    /\ Columns(input_rows[1], "Id") = {}
    /\ \A i \in 1..2 : \E j \in Columns(csv_data[i], "id") : csv_data[i][j][2] = Num(i)

\* the cover record c registers the key: its name or its domain is not
\* empty and is the key once trimmed and lowercased
RegistersKey(cover, c, key) ==
    \E j \in Columns(cover[c], "name") \cup Columns(cover[c], "domain") :
        /\ cover[c][j][2] # Str(<<>>)
        /\ Lower(Strip(cover[c][j][2].str)) = key

InTable(cover, key) == \E c \in 1..Len(cover) : RegistersKey(cover, c, key)

\* the id of the last cover record that registers the key
TableId(cover, key) ==
    LET last == CHOOSE c \in 1..Len(cover) :
                    /\ RegistersKey(cover, c, key)
                    /\ \A d \in (c + 1)..Len(cover) : ~RegistersKey(cover, d, key)
    IN  IF Columns(cover[last], "cover_image_id") = {} THEN None
        ELSE cover[last][CHOOSE j \in Columns(cover[last], "cover_image_id") : TRUE][2]

\* the key of a primary record's column k: trimmed and lowercased
RecordKey(row, k) == Lower(Strip(row[CHOOSE j \in Columns(row, k) : TRUE][2].str))

\* the table's answer for a primary record: by name if the table has the
\* name's key, else by domain if the table has the domain's key
LookedUp(cover, row) ==
    IF Columns(row, "name") # {} /\ InTable(cover, RecordKey(row, "name"))
    THEN TableId(cover, RecordKey(row, "name"))
    ELSE IF Columns(row, "domain") # {} /\ InTable(cover, RecordKey(row, "domain"))
    THEN TableId(cover, RecordKey(row, "domain"))
    ELSE None

\* C9: add_cover_image_id sets cover_image_id on a primary record exactly
\* when the lookup by its trimmed, lowercased name, or, when the table has
\* no entry for the name, by its trimmed, lowercased domain, finds a
\* non-empty id in the table of the cover records (per key, the id of the
\* last cover record registering it as name or domain); the value set is
\* that id; a record without such an id gets no cover_image_id column; all
\* other fields are unchanged.
C9_CoverImageId ==
    [][(script = "normalize" /\ pc = "add_cover") =>
        /\ Len(csv_data') = Len(csv_data)
        /\ \A i \in 1..Len(csv_data) :
            LET found == LookedUp(cover_csv_data.rows, csv_data[i]) IN
            IF found # None /\ found # Str(<<>>)
            THEN csv_data'[i] = Append(csv_data[i], <<"cover_image_id", found>>)
            ELSE csv_data'[i] = csv_data[i]]_vars

C9_Witness ==
    /\ script = "normalize"
    /\ pc = "write_csv"
    /\ Len(cover_csv_data.rows) = 2
    /\ cover_csv_data.rows[1] =
        <<<<"name", Str(<<"A", "c">>)>>, <<"domain", Str(<<>>)>>,
          <<"cover_image_id", Str(<<"7">>)>>>>
    /\ cover_csv_data.rows[2] =
        <<<<"name", Str(<<"A", "c">>)>>, <<"domain", Str(<<>>)>>,
          <<"cover_image_id", Str(<<"8">>)>>>>
    /\ Len(csv_data) = 2
    /\ \E j \in Columns(csv_data[1], "cover_image_id") : csv_data[1][j][2] = Str(<<"8">>)
    /\ Columns(csv_data[2], "cover_image_id") = {}

----------------------------------------------------------------------------
(* Claims about the output file *)

\* C10: in the normalize and geocode stages the output CSV is written only
\* after every record is transformed, and a run that stops early leaves no
\* partial output file: the file is not there, or it holds the header and
\* every record of the transformed sequence in the original order.
C10_NoPartialOutput ==
    (script \in {"geocode", "normalize"} /\ output_file.exists) =>
        /\ pc \in {"write_failed", "done", "exit"}
        /\ csv_data # <<>>
        /\ output_file.header = [j \in 1..Len(csv_data[1]) |-> csv_data[1][j][1]]
        /\ Len(output_file.rows) = Len(csv_data)

\* the names of a record's columns
ColumnSet(row) == {row[j][1] : j \in 1..Len(row)}

\* C11: for an input whose records all share one column set, when the
\* geocode stage, or the normalize stage in mode "all" with a cover file,
\* calls write_csv, every record's column set is contained in the first
\* record's (the header write_csv uses): no record carries a latitude,
\* longitude or cover_image_id column the header lacks, also when the first
\* record was skipped and a later one was enriched.
C11_ColumnsWithinHeader ==
    (/\ pc = "write_csv"
     /\ \/ script = "geocode"
        \/ script = "normalize" /\ mode = "all" /\ cover_csv_data.given
     /\ \A i \in 1..Len(input_rows) : ColumnSet(input_rows[i]) = ColumnSet(input_rows[1]))
    => \A i \in 1..Len(csv_data) : ColumnSet(csv_data[i]) \subseteq ColumnSet(csv_data[1])

====
